---- MODULE Spec2Model ----
(***************************************************************************)
(* A model of bin/setup.js: the retry helper retryPromiseIfNeeded and the  *)
(* provisioning workflow main.                                             *)
(*                                                                         *)
(* JavaScript runs every callback to completion, so one action is one      *)
(* callback: everything a settled promise triggers up to the next await.   *)
(* Every call that is issued is appended to log; the index of its "issue"  *)
(* event is the call's id, and that id also stands for the value the call  *)
(* resolves with or the error it rejects with.                             *)
(***************************************************************************)
EXTENDS Integers, Sequences, FiniteSets, TLC

VARIABLES
    pc,             \* position of the caller (main, or the retry harness)
    retry,          \* the running retryPromiseIfNeeded execution
    log,            \* every call issued, settled or called back, in order
    inflight,       \* ids of the calls issued and not yet settled
    awaited,        \* id of the call main is suspended on (0: none)
    ignored,        \* kinds of removal whose failure was dropped
    out,            \* what has been written to the console
    accessToken,    \* main: answer to the first prompt
    domain,         \* main: answer to the second prompt
    mothershipIp,   \* main: address of host A
    swarmManagerIp, \* main: trimmed address of host B
    rendered        \* documents dockerComposeContent has returned

vars == <<pc, retry, log, inflight, awaited, ignored, out, accessToken, domain,
          mothershipIp, swarmManagerIp, rendered>>

mainVars == <<accessToken, domain, mothershipIp, swarmManagerIp, rendered>>

----------------------------------------------------------------------------
(* Bounds of the model *)

\* largest maxTries the retry harness passes
MaxTriesBound == 4

----------------------------------------------------------------------------
(* Constants of the program *)

MOTHERSHIP_NODE_NAME == "mothership-paas"

SWARM_MANAGER_NODE_NAME == "mothership-swarm"

\* maxTries = 5, the default parameter
DefaultMaxTries == 5

----------------------------------------------------------------------------
(* Calls and the log *)

\* a faulty variant of DockerComposeContent: MOTHERSHIP_MANAGER_IP is left
\* empty
DockerComposeContentWithoutIp(d, ip, sessionSecret) ==
    [domain |-> d, managerName |-> "mothership-swarm", managerIp |-> <<>>,
     sessionSecret |-> sessionSecret]

\* the document dockerComposeContent returns, and no document
DockerComposeContent(d, ip, sessionSecret) ==
    [domain |-> d, managerName |-> SWARM_MANAGER_NODE_NAME, managerIp |-> ip,
     sessionSecret |-> sessionSecret]

NoDoc == [domain |-> "", managerName |-> "", managerIp |-> <<>>, sessionSecret |-> ""]

\* a call of function fn made at the place `site` of the program: on the
\* machine handle `machine` (sshMachine), with command cmd about the machine
\* called name; token, ip and doc are what the command text interpolates
Call(site, fn, machine, cmd, name) ==
    [site |-> site, fn |-> fn, machine |-> machine, cmd |-> cmd, name |-> name,
     token |-> "", ip |-> <<>>, doc |-> NoDoc]

\* the opaque action the retry harness passes as fn
TestFn == Call("fn", "fn", "", "", "")

NoCall == Call("", "", "", "", "")

Issue(l, call) == Append(l, [ev |-> "issue", call |-> call, id |-> Len(l) + 1])

Settle(l, id, how) == Append(l, [ev |-> how, call |-> l[id].call, id |-> id])

CallBack(l, err) == Append(l, [ev |-> "cb", call |-> NoCall, id |-> err])

\* positions of log holding an event of kind ev about call c
Events(ev, c) == {i \in 1..Len(log) : log[i].ev = ev /\ log[i].call = c}

----------------------------------------------------------------------------
(* retryPromiseIfNeeded *)

NoRetry ==
    [status |-> "idle", attempt |-> 0, maxTries |-> 0, cb |-> "none",
     fn |-> NoCall, current |-> 0, result |-> 0, error |-> 0]

\* the default parameter: maxTries = 5 when the argument is left out (<<>>)
MaxTriesParam(arg) == IF arg = <<>> THEN DefaultMaxTries ELSE arg[1]

\* a faulty variant of Exhausted: one attempt too many
ExhaustedOffByOne(attempt, maxTries) == attempt > maxTries

\* if (attempt >= maxTries)
Exhausted(attempt, maxTries) == attempt >= maxTries

\* the body of retryPromiseIfNeeded up to its first fn(): attempt = 1 and
\* attemptPromise() calls fn. Gives <<retry', log'>>.
StartRetry(l, fn, cb, maxTriesArg) ==
    << [status |-> "pending", attempt |-> 1, maxTries |-> MaxTriesParam(maxTriesArg),
        cb |-> cb, fn |-> fn, current |-> Len(l) + 1, result |-> 0, error |-> 0],
       Issue(l, fn) >>

\* (err) => { spawnSync(`docker-machine rm -y ${MOTHERSHIP_NODE_NAME}`, ...) }
\* spawnSync blocks until the command has ended and reports a failure in
\* its return value, which is dropped. Gives the log after the callback.
RemoveMothershipNode(l) ==
    LET rm == Call("destroyA", "spawnSync", "", "docker-machine rm -y", MOTHERSHIP_NODE_NAME)
    IN  Settle(Issue(l, rm), Len(l) + 1, "returned")

\* a faulty variant of RemoveSwarmManager: the removal is run on the local
\* machine, as the removal of the Mothership node is
RemoveSwarmManagerLocally(l) ==
    Issue(l, Call("destroyB", "spawnSync", "", "docker-machine rm -y",
                  SWARM_MANAGER_NODE_NAME))

\* a faulty variant of RemoveSwarmManager: the removal names the Mothership
\* node
RemoveSwarmManagerWrongName(l) ==
    Issue(l, Call("destroyB", "sshMachine", MOTHERSHIP_NODE_NAME,
                  "docker-machine rm -y", MOTHERSHIP_NODE_NAME))

\* async (err) => { await sshMachine(mothershipNode, `docker-machine rm -y
\* ${SWARM_MANAGER_NODE_NAME}`).catch(() => {}) }: the command is issued and
\* the callback returns a promise its caller drops.
RemoveSwarmManager(l) ==
    Issue(l, Call("destroyB", "sshMachine", MOTHERSHIP_NODE_NAME,
                  "docker-machine rm -y", SWARM_MANAGER_NODE_NAME))

\* a faulty variant of FailedAttemptCb: the callback is never called
FailedAttemptCbSkipped(l, cb, err, ok) ==
    [log |-> l, spawned |-> {}, threw |-> FALSE, dropped |-> {}]

\* a faulty variant of FailedAttemptCb: a removal of the Mothership node that
\* fails makes the callback throw
FailedAttemptCbThrowsOnFailedRemoval(l, cb, err, ok) ==
    LET called == CallBack(l, err) IN
    IF cb = "rmLocal"
    THEN [log |-> RemoveMothershipNode(called), spawned |-> {}, threw |-> ~ ok,
          dropped |-> {}]
    ELSE IF cb = "rmViaSsh"
    THEN [log |-> RemoveSwarmManager(called), spawned |-> {Len(called) + 1},
          threw |-> FALSE, dropped |-> {}]
    ELSE [log |-> IF cb = "none" THEN l ELSE called, spawned |-> {},
          threw |-> cb = "throws", dropped |-> {}]

\* if (failedAttemptCb) { failedAttemptCb(err); }
\* Gives the log after the call, the ids it left in flight, whether the
\* callback threw, and the kinds of removal whose failure it dropped (ok
\* tells whether the command spawnSync ran succeeded).
FailedAttemptCb(l, cb, err, ok) ==
    LET called == CallBack(l, err)
        plain(lg, threw) ==
            [log |-> lg, spawned |-> {}, threw |-> threw, dropped |-> {}]
    IN
    CASE cb = "none"     -> plain(l, FALSE)
      [] cb = "returns"  -> plain(called, FALSE)
      [] cb = "throws"   -> plain(called, TRUE)
      [] cb = "rmLocal"  -> [log |-> RemoveMothershipNode(called),
                             spawned |-> {}, threw |-> FALSE,
                             dropped |-> IF ok THEN {} ELSE {"destroyA"}]
      [] cb = "rmViaSsh" -> [log |-> RemoveSwarmManager(called),
                             spawned |-> {Len(called) + 1}, threw |-> FALSE,
                             dropped |-> {}]

\* a faulty variant of FnResolves: the success handler goes on to
\* attemptPromise()
FnResolvesAndReattempts ==
    /\ retry.status = "pending"
    /\ retry.current \in inflight
    /\ retry' = [retry EXCEPT !.status = "resolved", !.result = retry.current]
    /\ log' = Issue(Settle(log, retry.current, "ok"), retry.fn)
    /\ inflight' = (inflight \ {retry.current}) \cup {Len(log) + 2}
    /\ UNCHANGED <<pc, awaited, ignored, out, mainVars>>

\* fn().then((result) => { resolve(result); })
FnResolves ==
    /\ retry.status = "pending"
    /\ retry.current \in inflight
    /\ retry' = [retry EXCEPT !.status = "resolved", !.result = retry.current]
    /\ log' = Settle(log, retry.current, "ok")
    /\ inflight' = inflight \ {retry.current}
    /\ UNCHANGED <<pc, awaited, ignored, out, mainVars>>

\* .catch((err) => { if (attempt >= maxTries) { reject(err); } else {
\*   attempt += 1; if (failedAttemptCb) { failedAttemptCb(err); }
\*   attemptPromise(); } })
\* A callback that throws ends the handler before attemptPromise(): the
\* promise retryPromiseIfNeeded returned is then never settled.
FnRejects ==
    /\ retry.status = "pending"
    /\ retry.current \in inflight
    /\ LET err == retry.current
           failed == Settle(log, err, "fail")
       IN  IF Exhausted(retry.attempt, retry.maxTries)
           THEN /\ retry' = [retry EXCEPT !.status = "rejected", !.error = err]
                /\ log' = failed
                /\ inflight' = inflight \ {err}
                /\ UNCHANGED ignored
           ELSE \E ok \in BOOLEAN :
                  LET c == FailedAttemptCb(failed, retry.cb, err, ok) IN
                  /\ ignored' = ignored \cup c.dropped
                  /\ IF c.threw
                     THEN /\ retry' = [retry EXCEPT !.status = "stuck",
                                                    !.attempt = retry.attempt + 1]
                          /\ log' = c.log
                          /\ inflight' = (inflight \ {err}) \cup c.spawned
                     ELSE /\ retry' = [retry EXCEPT !.attempt = retry.attempt + 1,
                                                    !.current = Len(c.log) + 1]
                          /\ log' = Issue(c.log, retry.fn)
                          /\ inflight' = ((inflight \ {err}) \cup c.spawned)
                                             \cup {Len(c.log) + 1}
    /\ UNCHANGED <<pc, awaited, out, mainVars>>

\* a call nobody awaits settles: the removal of the swarm manager, whose
\* rejection .catch(() => {}) drops
UnawaitedSettles ==
    /\ pc \notin {"exited", "done"}
    /\ \E id \in inflight \ {awaited, retry.current} : \E ok \in BOOLEAN :
          /\ inflight' = inflight \ {id}
          /\ ignored' = ignored \cup (IF ok THEN {} ELSE {"destroyB"})
    /\ UNCHANGED <<pc, retry, log, awaited, out, mainVars>>

----------------------------------------------------------------------------
(* The retry harness: retryPromiseIfNeeded called once, with any callback *)
(* and any maxTries                                                       *)

CallbackKinds == {"none", "returns", "throws", "rmLocal", "rmViaSsh"}

MaxTriesArgs == {<<>>} \cup {<<n>> : n \in (0 - 1)..MaxTriesBound}

InitCommon ==
    /\ retry = NoRetry
    /\ log = <<>>
    /\ inflight = {}
    /\ awaited = 0
    /\ ignored = {}
    /\ out = <<>>
    /\ accessToken = ""
    /\ domain = ""
    /\ mothershipIp = ""
    /\ swarmManagerIp = <<>>
    /\ rendered = <<>>

InitRetry == pc = "test" /\ InitCommon

\* retryPromiseIfNeeded(fn, failedAttemptCb, maxTries)
TestCallRetry ==
    /\ pc = "test"
    /\ retry.status = "idle"
    /\ \E cb \in CallbackKinds, arg \in MaxTriesArgs :
          LET s == StartRetry(log, TestFn, cb, arg) IN
          /\ retry' = s[1]
          /\ log' = s[2]
          /\ inflight' = {s[1].current}
    /\ UNCHANGED <<pc, awaited, ignored, out, mainVars>>

NextRetry == TestCallRetry \/ FnResolves \/ FnRejects \/ UnawaitedSettles

SpecRetry == InitRetry /\ [][NextRetry]_vars

----------------------------------------------------------------------------
(* main *)

\* what the operator may answer, what the provider may report, and what
\* crypto.randomBytes may give
Tokens == {"token"}

Domains == {"example.com"}

MothershipIps == {"10.0.0.1"}

IpOutputs == {<<" ", "7", "\n">>, <<"\n">>, <<>>}

Secrets == {"s1", "s2"}

IsWhitespace(c) == c \in {" ", "\n"}

RECURSIVE TrimStart(_)
TrimStart(str) ==
    IF str # <<>> /\ IsWhitespace(Head(str)) THEN TrimStart(Tail(str)) ELSE str

RECURSIVE TrimEnd(_)
TrimEnd(str) ==
    IF str # <<>> /\ IsWhitespace(str[Len(str)])
    THEN TrimEnd(SubSeq(str, 1, Len(str) - 1))
    ELSE str

\* String.prototype.trim
Trim(str) == TrimEnd(TrimStart(str))

\* the awaits of main, in program order
MainOrder ==
    << "createA", "getIpA", "installCompose", "chmodCompose", "installMachine",
       "createB", "getIpB", "initCluster", "createNetwork", "deployListener",
       "deployProxy", "writeConfig", "startStack", "migrate", "seed" >>

\* a faulty variant of Successor: the await after installMachine is skipped
SuccessorSkipsCreateB(p) ==
    LET i == CHOOSE k \in 1..Len(MainOrder) : MainOrder[k] = p
    IN  IF p = "installMachine" THEN "getIpB" ELSE MainOrder[i + 1]

\* the await that follows await p
Successor(p) ==
    LET i == CHOOSE k \in 1..Len(MainOrder) : MainOrder[k] = p
    IN  MainOrder[i + 1]

\* the call main makes at await p; ip and doc are the values interpolated
\* into the command text
Command(p, ip, doc) ==
    LET ssh(cmd, name) == Call(p, "sshMachine", MOTHERSHIP_NODE_NAME, cmd, name) IN
    CASE p = "createA" ->
           [Call(p, "createDockerMachine", "", "", MOTHERSHIP_NODE_NAME)
               EXCEPT !.token = accessToken]
      [] p = "getIpA" -> Call(p, "getMachineIp", "", "", MOTHERSHIP_NODE_NAME)
      [] p = "installCompose" -> ssh("curl -o /usr/local/bin/docker-compose", "")
      [] p = "chmodCompose" -> ssh("chmod +x /usr/local/bin/docker-compose", "")
      [] p = "installMachine" -> ssh("curl, mv, chmod docker-machine", "")
      [] p = "createB" ->
           [ssh("docker-machine create", SWARM_MANAGER_NODE_NAME)
               EXCEPT !.token = accessToken]
      [] p = "getIpB" -> ssh("docker-machine ip", SWARM_MANAGER_NODE_NAME)
      [] p = "initCluster" ->
           [ssh("docker swarm init", SWARM_MANAGER_NODE_NAME) EXCEPT !.ip = ip]
      [] p = "createNetwork" -> ssh("docker network create", SWARM_MANAGER_NODE_NAME)
      [] p = "deployListener" ->
           ssh("docker service create swarm-listener", SWARM_MANAGER_NODE_NAME)
      [] p = "deployProxy" ->
           ssh("docker service create proxy", SWARM_MANAGER_NODE_NAME)
      [] p = "writeConfig" ->
           [ssh("echo >> docker-compose.yml", "") EXCEPT !.doc = doc]
      [] p = "startStack" -> ssh("docker-compose up -d", "")
      [] p = "migrate" -> ssh("sequelize db:migrate", "")
      [] p = "seed" -> ssh("sequelize db:seed:all", "")

\* the text of the spinner that is current during await p
Spinner(p) ==
    CASE p = "createA" -> "Creating droplet for Mothership (this may take a few moments)..."
      [] p = "getIpA" -> "Getting IP address of Mothership node..."
      [] p \in {"installCompose", "chmodCompose"} -> "Installing docker-compose..."
      [] p = "installMachine" -> "Installing docker-machine..."
      [] p = "createB" -> "Creating droplet for Mothership swarm manager..."
      [] p = "getIpB" -> "Getting IP address..."
      [] p = "initCluster" -> "Initializing swarm..."
      [] p = "createNetwork" -> "Creating overlay network..."
      [] p = "deployListener" -> "Creating docker-flow-swarm-listener service..."
      [] p = "deployProxy" -> "Creating docker-flow-proxy service..."
      [] p = "writeConfig" -> "Creating docker-compose.yml for Mothership..."
      [] p = "startStack" -> "Starting Mothership server (Node.js + Postgres)..."
      [] p = "migrate" -> "Running migrations for Mothership database..."
      [] p = "seed" -> "Seeding Mothership's database..."

Line(kind, text) == [kind |-> kind, text |-> text, rows |-> <<>>]

\* console.log of the section title that precedes await p
Header(p) ==
    CASE p = "createA" -> <<Line("log", "MOTHERSHIP SETUP")>>
      [] p = "createB" -> <<Line("log", "MOTHERSHIP SWARM SETUP")>>
      [] p = "writeConfig" -> <<Line("log", "MOTHERSHIP CONFIG AND START")>>
      [] OTHER -> <<>>

\* what main prints between the end of await p and the next await
Printed(p, next) ==
    (IF Spinner(next) # Spinner(p) THEN <<Line("succeed", Spinner(p))>> ELSE <<>>)
    \o (IF p = "getIpA"
        THEN <<Line("succeed", "Logging into Mothership droplet...")>> ELSE <<>>)
    \o Header(next)

\* main goes on from await p to a plain await: it prints, makes the call
\* and suspends on it. l is the log so far.
Proceed(l, p, ip, doc) ==
    /\ pc' = Successor(p)
    /\ out' = out \o Printed(p, Successor(p))
    /\ log' = Issue(l, Command(Successor(p), ip, doc))
    /\ inflight' = (inflight \ {awaited}) \cup {Len(l) + 1}
    /\ awaited' = Len(l) + 1

\* main goes on from await p to an await of retryPromiseIfNeeded(fn, cb)
ProceedToRetry(l, p, cb) ==
    LET s == StartRetry(l, Command(Successor(p), <<>>, NoDoc), cb, <<>>) IN
    /\ pc' = Successor(p)
    /\ out' = out \o Printed(p, Successor(p))
    /\ retry' = s[1]
    /\ log' = s[2]
    /\ inflight' = (inflight \ {awaited}) \cup {s[1].current}
    /\ awaited' = 0

InitMain == pc = "promptToken" /\ InitCommon

\* const accessToken = await promptForInput(...)
PromptToken ==
    /\ pc = "promptToken"
    /\ accessToken' \in Tokens
    /\ pc' = "promptDomain"
    /\ UNCHANGED <<retry, log, inflight, awaited, ignored, out, domain,
                   mothershipIp, swarmManagerIp, rendered>>

\* const domain = await promptForInput(...), up to the await of the retry
\* that creates the Mothership node
PromptDomain ==
    /\ pc = "promptDomain"
    /\ domain' \in Domains
    /\ LET s == StartRetry(log, Command("createA", <<>>, NoDoc), "rmLocal", <<>>) IN
         /\ retry' = s[1]
         /\ log' = s[2]
         /\ inflight' = {s[1].current}
    /\ out' = out \o Header("createA")
    /\ pc' = "createA"
    /\ UNCHANGED <<awaited, ignored, accessToken, mothershipIp, swarmManagerIp, rendered>>

\* }).then(() => { loading.succeed(); }) of a create, up to the next await
NodeCreated ==
    /\ pc \in {"createA", "createB"}
    /\ retry.status = "resolved"
    /\ Proceed(log, pc, <<>>, NoDoc)
    /\ retry' = NoRetry
    /\ UNCHANGED <<ignored, mainVars>>

\* a faulty variant of NodeNotCreated: process.exit() is missing, so main
\* goes on to the next await
NodeNotCreatedFallsThrough ==
    /\ pc \in {"createA", "createB"}
    /\ retry.status = "rejected"
    /\ pc' = Successor(pc)
    /\ out' = out \o << Line("fail", Spinner(pc)),
                        Line("log", "Could not successfully create node on 5 attempts.") >>
    /\ log' = Issue(log, Command(Successor(pc), <<>>, NoDoc))
    /\ inflight' = inflight \cup {Len(log) + 1}
    /\ awaited' = Len(log) + 1
    /\ retry' = NoRetry
    /\ UNCHANGED <<ignored, mainVars>>

\* }).catch(err => { loading.fail(); console.log(...); process.exit(); })
NodeNotCreated ==
    /\ pc \in {"createA", "createB"}
    /\ retry.status = "rejected"
    /\ out' = out \o << Line("fail", Spinner(pc)),
                        Line("log", "Could not successfully create node on 5 attempts.") >>
    /\ pc' = "exited"
    /\ UNCHANGED <<retry, log, inflight, awaited, ignored, mainVars>>

\* const mothershipIp = await getMachineIp(MOTHERSHIP_NODE_NAME), up to the
\* await of the first sshMachine
MothershipIpResolved ==
    /\ pc = "getIpA"
    /\ awaited \in inflight
    /\ mothershipIp' \in MothershipIps
    /\ Proceed(Settle(log, awaited, "ok"), pc, <<>>, NoDoc)
    /\ UNCHANGED <<retry, ignored, accessToken, domain, swarmManagerIp, rendered>>

\* result = await sshMachine(...) of a command whose result is not used and
\* that a plain sshMachine follows
CommandResolved ==
    /\ pc \in {"installCompose", "chmodCompose", "initCluster", "createNetwork",
               "deployListener", "writeConfig", "startStack", "migrate"}
    /\ awaited \in inflight
    /\ Proceed(Settle(log, awaited, "ok"), pc, swarmManagerIp, NoDoc)
    /\ UNCHANGED <<retry, ignored, mainVars>>

\* the install of docker-machine ends, up to the await of the retry that
\* creates the swarm manager
ToolingInstalled ==
    /\ pc = "installMachine"
    /\ awaited \in inflight
    /\ ProceedToRetry(Settle(log, awaited, "ok"), pc, "rmViaSsh")
    /\ UNCHANGED <<ignored, mainVars>>

\* let swarmManagerIp = await sshMachine(..., `docker-machine ip ...`);
\* swarmManagerIp = swarmManagerIp.trim(); up to the await of swarm init
SwarmIpResolved ==
    /\ pc = "getIpB"
    /\ awaited \in inflight
    /\ \E output \in IpOutputs :
          /\ swarmManagerIp' = Trim(output)
          /\ Proceed(Settle(log, awaited, "ok"), pc, Trim(output), NoDoc)
    /\ UNCHANGED <<retry, ignored, accessToken, domain, mothershipIp, rendered>>

\* the proxy service is created, up to the await of the sshMachine that
\* writes dockerComposeContent(domain, swarmManagerIp)
ProxyDeployed ==
    /\ pc = "deployProxy"
    /\ awaited \in inflight
    /\ \E sessionSecret \in Secrets :
          LET doc == DockerComposeContent(domain, swarmManagerIp, sessionSecret) IN
          /\ rendered' = Append(rendered, doc)
          /\ Proceed(Settle(log, awaited, "ok"), pc, swarmManagerIp, doc)
    /\ UNCHANGED <<retry, ignored, accessToken, domain, mothershipIp, swarmManagerIp>>

\* the seed command ends: the banner, the table of resource records and
\* process.exit()
Seeded ==
    /\ pc = "seed"
    /\ awaited \in inflight
    /\ log' = Settle(log, awaited, "ok")
    /\ inflight' = inflight \ {awaited}
    /\ awaited' = 0
    /\ out' = out \o
         << Line("succeed", Spinner(pc)),
            Line("log", "~~ Mothership installer complete! ~~"),
            [kind |-> "table", text |-> "",
             rows |-> << <<"@", "A", swarmManagerIp>>,
                         <<"*", "A", swarmManagerIp>>,
                         <<"mothership", "A", mothershipIp>> >>],
            Line("log", "After adding these resource records visit Mothership online") >>
    /\ pc' = "done"
    /\ UNCHANGED <<retry, ignored, mainVars>>

\* a faulty variant of AwaitedRejects: the rejection is swallowed and main
\* goes on
AwaitedRejectsIgnored ==
    /\ pc \in {"installCompose", "chmodCompose", "initCluster", "createNetwork",
               "deployListener", "writeConfig", "startStack", "migrate"}
    /\ awaited \in inflight
    /\ Proceed(Settle(log, awaited, "fail"), pc, swarmManagerIp, NoDoc)
    /\ UNCHANGED <<retry, ignored, mainVars>>

\* an awaited getMachineIp or sshMachine rejects: nothing in main catches
\* it, so the promise of main() rejects and main never resumes (after
\* reject(err) the callback of getMachineIp goes on to read result.driver of
\* an undefined result and throws; main does not resume then either)
AwaitedRejects ==
    /\ pc \in {MainOrder[i] : i \in 1..Len(MainOrder)} \ {"createA", "createB"}
    /\ awaited \in inflight
    /\ log' = Settle(log, awaited, "fail")
    /\ inflight' = inflight \ {awaited}
    /\ awaited' = 0
    /\ pc' = "rejected"
    /\ UNCHANGED <<retry, ignored, out, mainVars>>

Next ==
    \/ PromptToken
    \/ PromptDomain
    \/ FnResolves
    \/ FnRejects
    \/ UnawaitedSettles
    \/ NodeCreated
    \/ NodeNotCreated
    \/ MothershipIpResolved
    \/ CommandResolved
    \/ ToolingInstalled
    \/ SwarmIpResolved
    \/ ProxyDeployed
    \/ Seeded
    \/ AwaitedRejects

Spec == InitMain /\ [][Next]_vars

\* main when the operator answers the prompts and every call that is in
\* flight ends: a callback that can run does run
SpecFair == Spec /\ WF_vars(Next)

----------------------------------------------------------------------------
(* What the log says about the running retryPromiseIfNeeded execution *)

\* ids of the invocations of fn, and of those that failed or succeeded
FnCalls == Events("issue", retry.fn)

FnFails == {log[i].id : i \in Events("fail", retry.fn)}

FnOks == {log[i].id : i \in Events("ok", retry.fn)}

\* positions at which the failure callback was invoked
CbEvents == {i \in 1..Len(log) : log[i].ev = "cb"}

\* the number of the attempt that invocation id of fn is
AttemptNo(id) == Cardinality({j \in FnCalls : j <= id})

LastFnCall == CHOOSE i \in FnCalls : \A j \in FnCalls : j <= i

FnInFlight == {id \in inflight : log[id].call = retry.fn}

CbSupplied == retry.cb # "none"

----------------------------------------------------------------------------
(* Claims about retryPromiseIfNeeded, checked under SpecRetry *)

\* C1: for maxTries = n >= 1, n-1 failures followed by a success resolve the
\* retry, n failures reject it, and in both cases a supplied failure callback
\* has been invoked exactly n-1 times.
C1_OutcomeAfterNMinus1OrNFailures ==
    (retry.status # "idle" /\ retry.maxTries >= 1) =>
        /\ (Cardinality(FnFails) = retry.maxTries - 1 /\ Cardinality(FnOks) = 1)
              => /\ retry.status = "resolved"
                 /\ CbSupplied => Cardinality(CbEvents) = retry.maxTries - 1
        /\ Cardinality(FnFails) = retry.maxTries
              => /\ retry.status = "rejected"
                 /\ CbSupplied => Cardinality(CbEvents) = retry.maxTries - 1

C1_Witness ==
    /\ retry.maxTries = 4
    /\ retry.cb = "returns"
    /\ retry.status = "resolved"
    /\ Cardinality(FnFails) = 3
    /\ Cardinality(CbEvents) = 3

\* the state in which a retry that has resolved is
C2_ResolvedState ==
    retry.status = "resolved" =>
        /\ retry.result = LastFnCall
        /\ FnOks = {LastFnCall}
        /\ FnInFlight = {}
        /\ Cardinality(FnCalls) = Cardinality(FnFails) + 1
        /\ Cardinality(FnCalls) = retry.attempt
        /\ FnFails = {} => (Cardinality(FnCalls) = 1 /\ CbEvents = {})

\* C2: once an attempt succeeds the retry resolves with that attempt's value,
\* fn has been invoked exactly as often as the attempt's number, and is never
\* invoked again; a success of the first attempt means one invocation of fn
\* and none of the failure callback.
C2_SuccessEndsTheRetry ==
    /\ []C2_ResolvedState
    /\ [][retry.status = "resolved" =>
            (retry'.status = "resolved" /\ FnCalls' = FnCalls /\ CbEvents' = CbEvents)]_vars

C2_Witness ==
    /\ retry.status = "resolved"
    /\ retry.maxTries = 4
    /\ Cardinality(FnCalls) = 3
    /\ retry.result = LastFnCall

\* C3: when the retry rejects, it rejects with the error of the last attempt,
\* whose number is maxTries (or 1), the failure callback was not invoked for
\* that attempt, and every invocation of the callback was for a failed
\* attempt that another attempt followed.
C3_RejectsWithLastError ==
    retry.status = "rejected" =>
        /\ retry.error = LastFnCall
        /\ log[Len(log)] = [ev |-> "fail", call |-> retry.fn, id |-> LastFnCall]
        /\ AttemptNo(LastFnCall) = (IF retry.maxTries >= 1 THEN retry.maxTries ELSE 1)
        /\ \A i \in CbEvents :
              /\ log[i].id # LastFnCall
              /\ log[i].id \in FnFails
              /\ \E j \in FnCalls : j > i
        /\ CbSupplied => {log[i].id : i \in CbEvents} = FnFails \ {LastFnCall}

C3_Witness ==
    /\ retry.status = "rejected"
    /\ retry.maxTries = 3
    /\ retry.cb = "returns"
    /\ Cardinality(CbEvents) = 2
    /\ retry.error = LastFnCall

\* C4: at most one invocation of fn is in flight, and between two successive
\* invocations of fn the log holds the failure of the first and then, when a
\* callback was supplied, the callback invoked with that failure's error.
C4_AttemptsAreSequential ==
    /\ Cardinality(FnInFlight) <= 1
    /\ \A j \in FnCalls, k \in FnCalls :
          (j < k /\ ~ \E m \in FnCalls : j < m /\ m < k) =>
              \E f \in (j + 1)..(k - 1) :
                  /\ log[f].ev = "fail" /\ log[f].id = j
                  /\ CbSupplied => \E c \in (f + 1)..(k - 1) :
                                       log[c].ev = "cb" /\ log[c].id = j

C4_Witness ==
    /\ retry.cb = "rmViaSsh"
    /\ Cardinality(FnCalls) = 3
    /\ Cardinality(FnInFlight) = 1
    /\ Cardinality(inflight) = 3

\* C5: a failure callback that throws does not stop the retry: whenever the
\* callback has been invoked for a failed attempt, the next attempt has been
\* made, so the retry never ends up neither settled nor waiting for fn.
C5_ThrowingCallbackDoesNotStopRetry ==
    /\ \A i \in CbEvents : \E j \in FnCalls : j > i
    /\ retry.status \in {"pending", "resolved", "rejected"} \/ retry.status = "idle"

\* C20: for every maxTries, zero and negative included, fn is invoked at
\* least once and at most max(1, maxTries) times; with maxTries <= 1 the
\* failure callback is never invoked and a failure of the first attempt
\* rejects the retry at once with that attempt's error.
C20_AttemptsBetweenOneAndMaxTries ==
    retry.status # "idle" =>
        /\ Cardinality(FnCalls) >= 1
        /\ Cardinality(FnCalls) <= (IF retry.maxTries > 1 THEN retry.maxTries ELSE 1)
        /\ retry.maxTries <= 1 =>
              /\ CbEvents = {}
              /\ FnFails # {} =>
                    /\ retry.status = "rejected"
                    /\ retry.error = LastFnCall
                    /\ Cardinality(FnCalls) = 1

C20_Witness ==
    /\ retry.maxTries = 0 - 1
    /\ retry.status = "rejected"
    /\ retry.cb = "returns"
    /\ Cardinality(FnCalls) = 1


----------------------------------------------------------------------------
(* What the log says about a run of main *)

\* the await of main a call was made for; the two compensating removals
\* are "destroyA" and "destroyB"
Kind(c) == c.site

\* the workflow step an await belongs to
StepOf(k) ==
    CASE k = "createA" -> "create(A)"
      [] k = "getIpA" -> "getAddress(A)"
      [] k \in {"installCompose", "chmodCompose", "installMachine"} -> "install-tooling(A)"
      [] k = "createB" -> "create(B via A)"
      [] k = "getIpB" -> "getAddress(B via A)"
      [] k = "initCluster" -> "init-cluster"
      [] k = "createNetwork" -> "create-network"
      [] k = "deployListener" -> "deploy-listener"
      [] k = "deployProxy" -> "deploy-proxy"
      [] k = "writeConfig" -> "write-config"
      [] k = "startStack" -> "start-stack"
      [] k = "migrate" -> "migrate"
      [] k = "seed" -> "seed"
      [] OTHER -> k

Workflow ==
    << "create(A)", "getAddress(A)", "install-tooling(A)", "create(B via A)",
       "getAddress(B via A)", "init-cluster", "create-network", "deploy-listener",
       "deploy-proxy", "write-config", "start-stack", "migrate", "seed" >>

AwaitIndex(k) == CHOOSE i \in 1..Len(MainOrder) : MainOrder[i] = k

\* positions of the events of kind ev about calls of kind k
At(ev, k) == {i \in 1..Len(log) : log[i].ev = ev /\ Kind(log[i].call) = k}

\* the first of a set of positions, 0 when there is none
Earliest(positions) ==
    IF positions = {} THEN 0 ELSE CHOOSE i \in positions : \A j \in positions : i <= j

IsIssue(e) == e.ev = "issue"

\* the steps of the calls issued, in the order of issue, a run of calls of
\* one step counted once
RECURSIVE StepsOf(_)
StepsOf(events) ==
    IF events = <<>> THEN <<>>
    ELSE LET rest == StepsOf(Tail(events))
             step == StepOf(Kind(Head(events).call))
         IN  IF rest # <<>> /\ Head(rest) = step THEN rest ELSE <<step>> \o rest

IssuedSteps == StepsOf(SelectSeq(log, IsIssue))

NoFailure == \A i \in 1..Len(log) : log[i].ev # "fail"

Hosts == {MOTHERSHIP_NODE_NAME, SWARM_MANAGER_NODE_NAME}

\* what a call does to the host called h, read off the call itself
IsCreate(c, h) ==
    /\ c.name = h
    /\ \/ c.fn = "createDockerMachine"
       \/ c.fn = "sshMachine" /\ c.cmd = "docker-machine create"

IsDestroy(c, h) == c.name = h /\ c.cmd = "docker-machine rm -y"

IsGetAddress(c, h) ==
    /\ c.name = h
    /\ \/ c.fn = "getMachineIp"
       \/ c.fn = "sshMachine" /\ c.cmd = "docker-machine ip"

\* positions of the events of kind ev about a create, a removal or a
\* request for the address of host h
Creates(ev, h) == {i \in 1..Len(log) : log[i].ev = ev /\ IsCreate(log[i].call, h)}

Destroys(ev, h) == {i \in 1..Len(log) : log[i].ev = ev /\ IsDestroy(log[i].call, h)}

GetAddresses(ev, h) ==
    {i \in 1..Len(log) : log[i].ev = ev /\ IsGetAddress(log[i].call, h)}

\* the call is about host B by name
TouchesSwarmManager(c) == c.name = SWARM_MANAGER_NODE_NAME

\* a step has failed fatally: an unretried call failed or a retry rejected
FatalFailure ==
    \/ retry.status = "rejected"
    \/ \E i \in 1..Len(log) :
         log[i].ev = "fail" /\ Kind(log[i].call) \notin {"createA", "createB", "destroyA", "destroyB"}

Halted == pc \in {"exited", "rejected"}

----------------------------------------------------------------------------
(* Claims about main, checked under Spec *)

\* C6: while no call has failed, the steps issued are the first steps of the
\* workflow in its order, every call made once; at the end of such a run all
\* thirteen steps have been issued, in exactly the workflow's order.
C6_StepOrderWhenNothingFails ==
    NoFailure =>
        /\ IssuedSteps = SubSeq(Workflow, 1, Len(IssuedSteps))
        /\ \A k \in {MainOrder[i] : i \in 1..Len(MainOrder)} :
              Cardinality(At("issue", k)) <= 1
        /\ At("issue", "destroyA") \cup At("issue", "destroyB") = {}
        /\ pc = "done" =>
              /\ IssuedSteps = Workflow
              /\ \A k \in {MainOrder[i] : i \in 1..Len(MainOrder)} :
                    Cardinality(At("issue", k)) = 1

C6_Witness == pc = "done" /\ NoFailure /\ IssuedSteps = Workflow

\* the order of the calls in the log: the first call of an await follows
\* the first success of the await before it, which follows that await's own
\* first call; and after a failure of an install-tooling command nothing
\* that names host B is in the log
C7_EarlierStepsSucceeded ==
    /\ \A n \in 1..Len(MainOrder) :
          LET issued == Earliest(At("issue", MainOrder[n]))
              succeeded == Earliest(At("ok", MainOrder[n]))
          IN  /\ succeeded # 0 => (issued # 0 /\ issued < succeeded)
              /\ (issued # 0 /\ n > 1) =>
                    LET before == Earliest(At("ok", MainOrder[n - 1]))
                    IN  before # 0 /\ before < issued
    /\ (\E k \in {"installCompose", "chmodCompose", "installMachine"} : At("fail", k) # {})
          => /\ \A i \in 1..Len(log) : ~ TouchesSwarmManager(log[i].call)
             /\ pc = "rejected"

\* C7: a call of the workflow is issued only after every earlier await of
\* the workflow has a call that ended successfully (along the chain of
\* awaits, see C7_EarlierStepsSucceeded); once a step has failed fatally no
\* call is issued any more; and after a failure of an install-tooling
\* command no call names host B.
C7_NoStepAfterFatalFailure ==
    /\ []C7_EarlierStepsSucceeded
    /\ [][FatalFailure =>
            (FatalFailure' /\ SelectSeq(log', IsIssue) = SelectSeq(log, IsIssue))]_vars

C7_Witness ==
    /\ pc = "rejected"
    /\ At("fail", "installMachine") # {}
    /\ Cardinality(At("fail", "createA")) = 2

\* C8: when createDockerMachine of host A has failed five times, main has
\* stopped without any call that names host B, and what it prints on exit
\* names the creation of host A: the failed spinner carries the text of host
\* A's creation exactly when host A's creation was exhausted, and the text
\* of host B's creation exactly when host B's was.
C8_CreateAExhausted ==
    /\ Cardinality(Creates("fail", MOTHERSHIP_NODE_NAME)) = DefaultMaxTries =>
          /\ retry.status = "rejected"
          /\ pc \in {"createA", "exited"}
          /\ inflight = {}
          /\ \A i \in 1..Len(log) : ~ TouchesSwarmManager(log[i].call)
    /\ pc = "exited" =>
          /\ Spinner("createA") # Spinner("createB")
          /\ \A h \in {"createA", "createB"} :
                (Cardinality(At("fail", h)) = DefaultMaxTries)
                    <=> \E n \in 1..Len(out) : out[n] = Line("fail", Spinner(h))
          /\ out[Len(out) - 1].kind = "fail"

C8_Witness ==
    /\ pc = "exited"
    /\ Cardinality(Creates("fail", MOTHERSHIP_NODE_NAME)) = DefaultMaxTries
    /\ out[Len(out) - 1] = Line("fail", Spinner("createA"))

\* C9: between any two invocations of the create of a host, a removal of
\* that host has been issued.
C9_DestroyBetweenCreates ==
    \A h \in Hosts :
        LET creates == Creates("issue", h)
            destroys == Destroys("issue", h)
        IN  \A i \in creates, j \in creates :
                i < j => \E d \in destroys : i < d /\ d < j

C9_Witness ==
    /\ Cardinality(Creates("issue", MOTHERSHIP_NODE_NAME)) = 3
    /\ Cardinality(Creates("issue", SWARM_MANAGER_NODE_NAME)) = 3
    /\ Cardinality(Destroys("issue", SWARM_MANAGER_NODE_NAME)) = 2

\* C10: the address of a host is asked for only after a create of that host
\* has ended successfully, and never when five creates of the host failed.
C10_AddressAfterCreate ==
    \A h \in Hosts :
        /\ \A i \in GetAddresses("issue", h) : \E j \in Creates("ok", h) : j < i
        /\ Cardinality(Creates("fail", h)) = DefaultMaxTries
              => GetAddresses("issue", h) = {}

C10_Witness ==
    /\ GetAddresses("issue", SWARM_MANAGER_NODE_NAME) # {}
    /\ Cardinality(Creates("fail", SWARM_MANAGER_NODE_NAME)) = 4
    /\ Cardinality(Creates("fail", MOTHERSHIP_NODE_NAME)) = 1

\* C11: at most one remote call is in flight at any time, the removals
\* issued between failed creates included.
C11_OneRemoteCallInFlight == Cardinality(inflight) <= 1

\* C12: when docker-machine ip has ended successfully with an output that is
\* empty once trimmed, main stops: swarm init is not issued and the report
\* is not printed.
C12_EmptyAddressHalts ==
    (At("ok", "getIpB") # {} /\ swarmManagerIp = <<>>) =>
        /\ At("issue", "initCluster") = {}
        /\ pc # "done"

\* C13: a removal that fails changes nothing: for each host the creates
\* issued are the failed ones plus the one that succeeded, or plus the one
\* still awaited when fewer than five have failed and none has succeeded;
\* main exits only when five creates of a host have failed, and is rejected
\* only when an unretried call has failed.
C13_RemovalFailureIsIgnored ==
    /\ \A h \in Hosts :
          LET issued == Cardinality(Creates("issue", h))
              failed == Cardinality(Creates("fail", h))
              succeeded == Cardinality(Creates("ok", h))
          IN  issued > 0 =>
                /\ succeeded <= 1
                /\ failed <= DefaultMaxTries
                /\ issued = IF succeeded = 1 \/ failed = DefaultMaxTries
                            THEN failed + succeeded
                            ELSE failed + 1
                /\ Cardinality(Destroys("issue", h)) =
                      IF failed = DefaultMaxTries THEN failed - 1 ELSE failed
    /\ pc = "exited" =>
          \E h \in Hosts : Cardinality(Creates("fail", h)) = DefaultMaxTries
    /\ pc = "rejected" =>
          \E i \in 1..Len(log) :
              log[i].ev = "fail" /\ ~ \E h \in Hosts : IsCreate(log[i].call, h)

C13_Witness ==
    /\ ignored = {"destroyA", "destroyB"}
    /\ pc = "done"
    /\ Cardinality(Creates("fail", SWARM_MANAGER_NODE_NAME)) = 2

\* C14: every call other than the two creates is issued at most once; a
\* failure of the migration or of the seeding rejects main: after a failed
\* migration the seeding is not issued, and main is never done after either.
C14_OnlyCreatesAreRetried ==
    /\ \A k \in {MainOrder[i] : i \in 1..Len(MainOrder)} \ {"createA", "createB"} :
          Cardinality(At("issue", k)) <= 1
    /\ At("fail", "migrate") # {} => (At("issue", "seed") = {} /\ pc = "rejected")
    /\ At("fail", "seed") # {} => pc = "rejected"

C14_Witness ==
    /\ At("fail", "migrate") # {}
    /\ pc = "rejected"
    /\ Cardinality(At("issue", "createB")) = 2

\* C15: every call that names host B is an sshMachine on the handle of host
\* A, and createDockerMachine, getMachineIp and the local spawnSync are only
\* ever called with the name of host A.
C15_HostBOnlyThroughHostA ==
    \A i \in 1..Len(log) :
        LET c == log[i].call IN
        /\ c.name = SWARM_MANAGER_NODE_NAME =>
              (c.fn = "sshMachine" /\ c.machine = MOTHERSHIP_NODE_NAME)
        /\ c.fn \in {"createDockerMachine", "getMachineIp", "spawnSync"} =>
              c.name = MOTHERSHIP_NODE_NAME

C15_Witness ==
    /\ Creates("ok", SWARM_MANAGER_NODE_NAME) # {}
    /\ Destroys("issue", SWARM_MANAGER_NODE_NAME) # {}
    /\ GetAddresses("ok", SWARM_MANAGER_NODE_NAME) # {}
    /\ Destroys("issue", MOTHERSHIP_NODE_NAME) # {}

\* C16: a removal of a host is issued only right after a failed create of
\* that host, through the failure callback, and another create of the host
\* follows it; no removal of a host is issued after a create of it has
\* succeeded; and no removal of host A is issued once a call names host B.
C16_ForwardOnly ==
    \A h \in Hosts :
        LET destroys == Destroys("issue", h)
            created == Earliest(Creates("ok", h))
        IN  /\ \A d \in destroys :
                  /\ d > 2
                  /\ log[d - 1].ev = "cb"
                  /\ log[d - 2].ev = "fail" /\ IsCreate(log[d - 2].call, h)
                  /\ log[d - 1].id = log[d - 2].id
                  /\ \E j \in Creates("issue", h) : j > d
                  /\ created # 0 => d < created
            /\ h = MOTHERSHIP_NODE_NAME =>
                  \A d \in destroys :
                      \A i \in 1..d : ~ TouchesSwarmManager(log[i].call)

C16_Witness ==
    /\ pc = "rejected"
    /\ At("fail", "startStack") # {}
    /\ Cardinality(Destroys("issue", MOTHERSHIP_NODE_NAME)) = 1
    /\ Cardinality(Destroys("issue", SWARM_MANAGER_NODE_NAME)) = 1

\* the table of resource records has been printed
ReportPrinted == \E n \in 1..Len(out) : out[n].kind = "table"

\* C17: the table of resource records and the banner are printed exactly
\* when every await of main, from the create of host A to the seeding, has a
\* call that ended successfully, and never after a step has failed fatally.
C17_ReportIffAllStepsSucceeded ==
    /\ ReportPrinted <=> \A n \in 1..Len(MainOrder) : At("ok", MainOrder[n]) # {}
    /\ ReportPrinted <=> pc = "done"
    /\ ReportPrinted =>
          /\ ~ FatalFailure
          /\ \E n \in 1..Len(out) :
                out[n] = Line("log", "~~ Mothership installer complete! ~~")
    /\ Halted => ~ ReportPrinted

C17_Witness ==
    /\ ReportPrinted
    /\ Cardinality(Creates("fail", SWARM_MANAGER_NODE_NAME)) = 1
    /\ swarmManagerIp # <<>>

Stopped == pc \in {"done", "exited", "rejected"}

\* what has been issued for each host, and how main has stopped
C18_Bounded ==
    /\ \A h \in Hosts :
          /\ Cardinality(Creates("issue", h)) <= DefaultMaxTries
          /\ Cardinality(Destroys("issue", h)) <= DefaultMaxTries - 1
    /\ pc = "done" => At("ok", "seed") # {}
    /\ Halted => FatalFailure

\* C18: when every call that is issued ends, main stops, done after the
\* seeding or halted at a step that failed fatally, and it has issued at
\* most five creates and four removals for each host.
C18_MainStops == <>Stopped /\ []C18_Bounded

C18_Witness ==
    /\ pc = "exited"
    /\ Cardinality(Creates("issue", SWARM_MANAGER_NODE_NAME)) = DefaultMaxTries
    /\ Cardinality(Destroys("issue", SWARM_MANAGER_NODE_NAME)) = DefaultMaxTries - 1
    /\ Cardinality(Destroys("issue", MOTHERSHIP_NODE_NAME)) = DefaultMaxTries - 1

\* C19: dockerComposeContent is called at most once, exactly when the
\* command that writes docker-compose.yml is issued, which is after the
\* address of host B was obtained and the proxy service was created; the
\* document sent is the one rendered, and the address in it is the one given
\* to swarm init and printed in the table of resource records.
C19_DescriptorRenderedOnce ==
    /\ Len(rendered) <= 1
    /\ Len(rendered) = Cardinality(At("issue", "writeConfig"))
    /\ rendered # <<>> =>
          /\ At("ok", "getIpB") # {}
          /\ At("ok", "deployProxy") # {}
          /\ rendered[1].managerIp = swarmManagerIp
          /\ rendered[1].sessionSecret \in Secrets
          /\ \A i \in At("issue", "writeConfig") : log[i].call.doc = rendered[1]
          /\ \A i \in At("issue", "initCluster") :
                log[i].call.ip = rendered[1].managerIp
          /\ \A n \in 1..Len(out) :
                out[n].kind = "table" =>
                    /\ out[n].rows[1][3] = rendered[1].managerIp
                    /\ out[n].rows[2][3] = rendered[1].managerIp

C19_Witness ==
    /\ pc = "done"
    /\ Len(rendered) = 1
    /\ rendered[1].managerIp = <<"7">>
    /\ rendered[1].sessionSecret = "s2"

====
